---- MODULE Spec2Model ----
(***************************************************************************)
(* A model of ioshelfer's detection and remediation code.                  *)
(*                                                                         *)
(*   - the detectors of internal/core/detection (RAIDDetector,             *)
(*     DiskDetector, NetworkDetector) and pkg/raid (RAIDController) as     *)
(*     operators over a sampled metric record;                             *)
(*   - the RAIDRemediator of the remediation package (api/v1/raid.go) as   *)
(*     the actions Isolate and Recover over the isolation state of the     *)
(*     devices it is called for;                                           *)
(*   - the FileStorage of internal/infra/storage as the actions Store and  *)
(*     Query over one metrics file per device;                             *)
(*   - the forecasts of pkg/disk (SMARTMonitor.MonitorPerformance),        *)
(*     pkg/network (MonitorLatency) and internal/core/prediction           *)
(*     (LSTMPredictor) as operators over a history window;                 *)
(*   - goroutines calling ParseSMART, Store and Query on one FileStorage,  *)
(*     step by step, synchronised by FileStorage.mu only;                  *)
(*   - the library entry points ParseSMART, AnalyzeTraffic,                *)
(*     MonitorLatency, ChaosExperiment.Execute and                         *)
(*     SLOValidator.GetSLOConfig as calls with their results.              *)
(*                                                                         *)
(* Durations are whole milliseconds, confidences are hundredths (0.95 is   *)
(* 95), iops variance is hundredths, packet loss and read error rates are  *)
(* ten-thousandths, probabilities are hundredths.                          *)
(***************************************************************************)
EXTENDS Integers, Sequences, FiniteSets

VARIABLES
    detCfg,      \* detection.Config / raid.Config of the detectors
    detKind,     \* which detector ran last ("none" before the first check)
    detSample,   \* the metrics the monitor returned to that check
    detOut,      \* the HealthStatus (and error) that check returned
    remCfg,      \* remediation.Config of the RAIDRemediator
    isolated,    \* per device: the controller is currently isolated
    verdicts,    \* the statuses CheckSubHealth returned, newest last
    lastCall,    \* the last call on the remediator or its detector, and what it returned
    clock,       \* time.Now(), in ticks
    typeDirs,    \* the device-type directories that exist under FileStorage.baseDir
    files,       \* per device: the content of its metrics file
    lastOp,      \* the last Store or Query call on the FileStorage, and what it returned
    history,     \* the metrics the storage returned to the last forecast
    forecast,    \* the last forecast call, and what it returned
    procs,       \* per goroutine: the call it is in, where it is and its locals
    mu,          \* FileStorage.mu: who holds the sync.RWMutex
    committed,   \* per device: the metrics of the Stores whose write completed, in order
    coreCfg,     \* the core section of the configuration (core.workers)
    apiCall      \* the last call of a library entry point, and what it returned

vars == <<detCfg, detKind, detSample, detOut, remCfg, isolated, verdicts, lastCall,
          clock, typeDirs, files, lastOp, history, forecast,
          procs, mu, committed, coreCfg, apiCall>>

detVars == <<detKind, detSample, detOut>>
remVars == <<remCfg, isolated, verdicts, lastCall>>
storeVars == <<clock, typeDirs, files, lastOp>>
fcVars == <<history, forecast>>
conVars == <<procs, mu, committed, coreCfg>>
apiVars == <<apiCall>>

---------------------------------------------------------------------------
(* Bounds of the model *)

\* number of sibling devices (the path population) the remediator is called for
NumDevices == 3

\* the last tick of the clock
MaxTime == 1

\* the longest log a metrics file may hold
MaxLog == 2

\* the longest enumerated history window handed to a forecast
MaxHistory == 3

\* number of goroutines calling into one FileStorage
NumGoroutines == 3

---------------------------------------------------------------------------
(* enum.HealthStatus, enum.DeviceType, enum.IsolationStrategy *)

Healthy == 0
SubHealthy == 1
Failed == 2
HealthStatuses == {Healthy, SubHealthy, Failed}

RAID == 0
Disk == 1
Network == 2
DeviceTypes == {RAID, Disk, Network}

Temporary == 0
Permanent == 1
IsolationStrategies == {Temporary, Permanent}

Devices == 1..NumDevices

Max(S) == CHOOSE x \in S : \A y \in S : y <= x
Min(S) == CHOOSE x \in S : \A y \in S : x <= y

---------------------------------------------------------------------------
(* Metric samples: ebpf.RAIDMetrics, ebpf.DiskMetrics, ebpf.NetworkMetrics *)

NoSample ==
    [QueueDepth |-> 0, AvgLatency |-> 0, ErrorRetryRate |-> 0,
     IOPSVariance |-> 0, ReallocatedSectors |-> 0,
     PacketLossRate |-> 0, LatencyP95 |-> 0,
     ReadErrorRate |-> 0, Temperature |-> 0, AttrFailing |-> FALSE]

RAIDSamples ==
    { [NoSample EXCEPT !.QueueDepth = q, !.AvgLatency = l, !.ErrorRetryRate = r] :
        q \in {0, 128, 150}, l \in {10, 20, 25}, r \in {50, 100, 150} }

DiskSamples ==
    { [NoSample EXCEPT !.IOPSVariance = v, !.ReallocatedSectors = s] :
        v \in {0, 30, 45}, s \in {0, 10, 50, 100, 150} }

NetworkSamples ==
    { [NoSample EXCEPT !.PacketLossRate = p, !.LatencyP95 = l] :
        p \in {0, 10, 20}, l \in {10, 20, 25} }

\* disk.SMARTData as ParseSMART fills it: the reallocated sector count, the
\* read error rate (ten-thousandths), the temperature, and whether some parsed
\* attribute has value <= threshold (status "FAILING")
SMARTSamples ==
    { [NoSample EXCEPT !.ReallocatedSectors = s, !.ReadErrorRate = e,
                       !.Temperature = t, !.AttrFailing = a] :
        s \in {0, 10, 11, 100, 101}, e \in {0, 100, 101, 1000, 1001},
        t \in {40, 65, 66}, a \in BOOLEAN }

DetConfigs ==
    [QueueThreshold : {128}, LatencyThreshold : {20},
     IOPSVarThreshold : {30}, PacketLossThreshold : {10},
     FirmwareVersion : {"", "v1.0", "v2.0"}]

---------------------------------------------------------------------------
(* The detectors *)

InitialHealth ==
    [Status |-> Healthy, Confidence |-> 100, Recommendation |-> "no action required"]

\* RAIDDetector.CheckSubHealth: three rules, each assigning in turn
RAIDDetectorCheckSubHealth(cfg, m) ==
    LET s1 == IF m.QueueDepth >= cfg.QueueThreshold
              THEN [Status |-> SubHealthy, Confidence |-> 95,
                    Recommendation |-> "temporary isolation recommended"]
              ELSE InitialHealth
        s2 == IF m.AvgLatency > cfg.LatencyThreshold
              THEN [Status |-> SubHealthy, Confidence |-> 90,
                    Recommendation |-> "check controller firmware and isolate if persistent"]
              ELSE s1
        s3 == IF m.ErrorRetryRate > 100
              THEN [Status |-> Failed, Confidence |-> 99,
                    Recommendation |-> "immediate isolation and replacement"]
              ELSE s2
    IN  s3

\* RAIDController.CheckHealth: the same rules with min() on two of them, then
\* the firmware rule
RAIDControllerCheckHealth(cfg, m) ==
    LET s1 == IF m.QueueDepth >= cfg.QueueThreshold
              THEN [Status |-> SubHealthy, Confidence |-> 95,
                    Recommendation |-> "temporary isolation recommended"]
              ELSE InitialHealth
        s2 == IF m.AvgLatency > cfg.LatencyThreshold
              THEN [Status |-> SubHealthy, Confidence |-> Min({s1.Confidence, 90}),
                    Recommendation |-> "check controller firmware and isolate if persistent"]
              ELSE s1
        s3 == IF m.ErrorRetryRate > 100
              THEN [Status |-> Failed, Confidence |-> 99,
                    Recommendation |-> "immediate isolation and replacement"]
              ELSE s2
        s4 == IF cfg.FirmwareVersion # "" /\ cfg.FirmwareVersion # "v1.0"
              THEN [Status |-> SubHealthy, Confidence |-> Min({s3.Confidence, 85}),
                    Recommendation |-> "update firmware to " \o cfg.FirmwareVersion]
              ELSE s3
    IN  s4

\* DiskDetector.CheckSubHealth
DiskDetectorCheckSubHealth(cfg, m) ==
    LET s1 == IF m.IOPSVariance > cfg.IOPSVarThreshold
              THEN [Status |-> SubHealthy, Confidence |-> 92,
                    Recommendation |-> "monitor disk performance closely"]
              ELSE InitialHealth
        s2 == IF m.ReallocatedSectors > 100
              THEN [Status |-> SubHealthy, Confidence |-> 95,
                    Recommendation |-> "schedule disk replacement"]
              ELSE s1
    IN  s2

\* a faulty NetworkDetector.CheckSubHealth: the latency rule lowers the
\* confidence and sets the recommendation but leaves the status as it was
\* (C12 fails for it)
NetworkDetectorLatencyKeepsStatus(cfg, m) ==
    LET s1 == IF m.PacketLossRate > cfg.PacketLossThreshold
              THEN [Status |-> SubHealthy, Confidence |-> 93,
                    Recommendation |-> "check network interface and routing"]
              ELSE InitialHealth
        s2 == IF m.LatencyP95 > cfg.LatencyThreshold
              THEN [Status |-> s1.Status, Confidence |-> 90,
                    Recommendation |-> "investigate network congestion"]
              ELSE s1
    IN  s2

\* NetworkDetector.CheckSubHealth
NetworkDetectorCheckSubHealth(cfg, m) ==
    LET s1 == IF m.PacketLossRate > cfg.PacketLossThreshold
              THEN [Status |-> SubHealthy, Confidence |-> 93,
                    Recommendation |-> "check network interface and routing"]
              ELSE InitialHealth
        s2 == IF m.LatencyP95 > cfg.LatencyThreshold
              THEN [Status |-> SubHealthy, Confidence |-> 90,
                    Recommendation |-> "investigate network congestion"]
              ELSE s1
    IN  s2

\* SMARTMonitor.assessOverallHealth: the first rule that matches returns
assessOverallHealth(data) ==
    IF data.ReallocatedSectors > 100 THEN Failed
    ELSE IF data.ReadErrorRate > 1000 THEN Failed
    ELSE IF data.Temperature > 65 THEN SubHealthy
    ELSE IF data.AttrFailing THEN SubHealthy
    ELSE IF data.ReallocatedSectors > 10 THEN SubHealthy
    ELSE IF data.ReadErrorRate > 100 THEN SubHealthy
    ELSE Healthy

---------------------------------------------------------------------------
(* The rule tables the detectors implement: which rules a sample triggers, *)
(* and the status and confidence the rule's branch assigns.                *)

DetectorKinds == {"raid", "raidctl", "disk", "network"}

RulesTriggered(kind, cfg, m) ==
    CASE kind = "raid" ->
           {r \in {"queue"} : m.QueueDepth >= cfg.QueueThreshold}
           \cup {r \in {"latency"} : m.AvgLatency > cfg.LatencyThreshold}
           \cup {r \in {"retries"} : m.ErrorRetryRate > 100}
      [] kind = "raidctl" ->
           {r \in {"queue"} : m.QueueDepth >= cfg.QueueThreshold}
           \cup {r \in {"latency"} : m.AvgLatency > cfg.LatencyThreshold}
           \cup {r \in {"retries"} : m.ErrorRetryRate > 100}
           \cup {r \in {"firmware"} :
                    cfg.FirmwareVersion # "" /\ cfg.FirmwareVersion # "v1.0"}
      [] kind = "disk" ->
           {r \in {"iops-variance"} : m.IOPSVariance > cfg.IOPSVarThreshold}
           \cup {r \in {"reallocated"} : m.ReallocatedSectors > 100}
      [] kind = "network" ->
           {r \in {"packet-loss"} : m.PacketLossRate > cfg.PacketLossThreshold}
           \cup {r \in {"latency-p95"} : m.LatencyP95 > cfg.LatencyThreshold}
      [] OTHER -> {}

\* the rules of assessOverallHealth a SMARTData record triggers
SMARTRulesTriggered(data) ==
    {r \in {"reallocated-critical"} : data.ReallocatedSectors > 100}
    \cup {r \in {"read-errors-critical"} : data.ReadErrorRate > 1000}
    \cup {r \in {"temperature"} : data.Temperature > 65}
    \cup {r \in {"failing-attribute"} : data.AttrFailing}
    \cup {r \in {"reallocated-warn"} : data.ReallocatedSectors > 10}
    \cup {r \in {"read-errors-warn"} : data.ReadErrorRate > 100}

RuleStatus(kind, rule) ==
    IF rule = "retries" THEN Failed ELSE SubHealthy

RuleConfidence(kind, rule) ==
    CASE rule = "queue" -> 95
      [] rule = "latency" -> 90
      [] rule = "retries" -> 99
      [] rule = "firmware" -> 85
      [] rule = "iops-variance" -> 92
      [] rule = "reallocated" -> 95
      [] rule = "packet-loss" -> 93
      [] rule = "latency-p95" -> 90

---------------------------------------------------------------------------
(* Detection: one check of one detector.  The monitor either returns a     *)
(* sample or fails; on failure the detector returns the zero HealthStatus  *)
(* and an error.                                                           *)

ZeroHealth == [Status |-> Healthy, Confidence |-> 0, Recommendation |-> ""]

Detect(kind, cfg, m) ==
    CASE kind = "raid" -> RAIDDetectorCheckSubHealth(cfg, m)
      [] kind = "raidctl" -> RAIDControllerCheckHealth(cfg, m)
      [] kind = "disk" -> DiskDetectorCheckSubHealth(cfg, m)
      [] kind = "network" -> NetworkDetectorCheckSubHealth(cfg, m)

(* errors: an error value is a record; NilError is Go's nil *)
NilError == [Code |-> "nil", Message |-> ""]

\* the error the monitor's Get...Metrics may return
ProbeError == [Code |-> "probe", Message |-> "probe failed"]

\* errors.NewQueueOverflow, NewStorageFailure, NewNetworkPacketLoss
CustomError(code, msg, cause) == [Code |-> code, Message |-> msg]

\* errors.Wrap: nil stays nil; a CustomError keeps its code
ErrorsWrap(err, msg) ==
    IF err = NilError THEN NilError
    ELSE [Code |-> err.Code, Message |-> msg \o ": " \o err.Message]

\* errors.New(msg, err) is Wrap(err, msg)
ErrorsNew(msg, err) == ErrorsWrap(err, msg)

\* the error a detector returns when the monitor fails
MonitorError(kind) ==
    CASE kind = "raid" ->
           CustomError("ERR_QUEUE_OVERFLOW", "failed to get RAID metrics", ProbeError)
      [] kind = "raidctl" ->
           ErrorsWrap(CustomError("ERR_QUEUE_OVERFLOW", "failed to get RAID metrics",
                                  ProbeError),
                      "failed to check RAID controller health")
      [] kind = "disk" ->
           CustomError("ERR_STORAGE_FAILURE", "failed to get disk metrics", ProbeError)
      [] kind = "network" ->
           CustomError("ERR_NETWORK_PACKET_LOSS", "failed to get network metrics",
                       ProbeError)

\* one call of a detector: (HealthStatus, error)
CheckResult(kind, cfg, m, monitorFails) ==
    IF monitorFails
    THEN [Health |-> ZeroHealth, Err |-> MonitorError(kind)]
    ELSE [Health |-> Detect(kind, cfg, m), Err |-> NilError]

CheckRAIDSubHealth ==
    \E m \in RAIDSamples, f \in BOOLEAN :
        /\ detKind' = "raid"
        /\ detSample' = IF f THEN NoSample ELSE m
        /\ detOut' = CheckResult("raid", detCfg, m, f)
        /\ UNCHANGED <<detCfg, remCfg, isolated, verdicts, lastCall, storeVars, fcVars, conVars, apiVars>>

CheckRAIDHealth ==
    \E m \in RAIDSamples, f \in BOOLEAN :
        /\ detKind' = "raidctl"
        /\ detSample' = IF f THEN NoSample ELSE m
        /\ detOut' = CheckResult("raidctl", detCfg, m, f)
        /\ UNCHANGED <<detCfg, remCfg, isolated, verdicts, lastCall, storeVars, fcVars, conVars, apiVars>>

CheckDiskSubHealth ==
    \E m \in DiskSamples, f \in BOOLEAN :
        /\ detKind' = "disk"
        /\ detSample' = IF f THEN NoSample ELSE m
        /\ detOut' = CheckResult("disk", detCfg, m, f)
        /\ UNCHANGED <<detCfg, remCfg, isolated, verdicts, lastCall, storeVars, fcVars, conVars, apiVars>>

CheckNetworkSubHealth ==
    \E m \in NetworkSamples, f \in BOOLEAN :
        /\ detKind' = "network"
        /\ detSample' = IF f THEN NoSample ELSE m
        /\ detOut' = CheckResult("network", detCfg, m, f)
        /\ UNCHANGED <<detCfg, remCfg, isolated, verdicts, lastCall, storeVars, fcVars, conVars, apiVars>>

\* SMARTMonitor.ParseSMART on non-empty data: the parsed SMARTData and the
\* overall status assessOverallHealth gives it (a status only: SMARTData has
\* no confidence or recommendation)
AssessSMART ==
    \E data \in SMARTSamples :
        /\ detKind' = "smart"
        /\ detSample' = data
        /\ detOut' = [Health |-> [ZeroHealth EXCEPT !.Status = assessOverallHealth(data)],
                      Err |-> NilError]
        /\ UNCHANGED <<detCfg, remCfg, isolated, verdicts, lastCall, storeVars, fcVars, conVars, apiVars>>

---------------------------------------------------------------------------
(* Remediation: RAIDRemediator.Isolate and RAIDRemediator.Recover          *)

RemConfigs ==
    [AutoIsolation : BOOLEAN, PreservePathsRatio : {50}, MinHealthyPaths : {1}]

\* the samples the remediator's detector is given: nominal, the monitor's
\* mock values (queue 150, latency 25ms, 50 retries), and a failing controller
RemSamples ==
    { [NoSample EXCEPT !.QueueDepth = 0, !.AvgLatency = 10, !.ErrorRetryRate = 50],
      [NoSample EXCEPT !.QueueDepth = 150, !.AvgLatency = 25, !.ErrorRetryRate = 50],
      [NoSample EXCEPT !.QueueDepth = 0, !.AvgLatency = 10, !.ErrorRetryRate = 150] }

\* what the monitor may answer the remediator's detector: a sample, or an error
RemProbes ==
    { [Fails |-> FALSE, Sample |-> m] : m \in RemSamples }
    \cup { [Fails |-> TRUE, Sample |-> NoSample] }

\* RemediationResult{}: the zero value
ZeroResult ==
    [DeviceType |-> RAID, DeviceID |-> 0, Action |-> "", Success |-> FALSE,
     Error |-> NilError]

\* what a call returns: the result, the error, whether it asked the detector
\* and what it logged
Outcome(result, err, checked, log) ==
    [Result |-> result, Err |-> err, Checked |-> checked, Log |-> log]

\* a faulty IsolateOutcome: the AutoIsolation guard is missing (C3 fails for it)
IsolateOutcomeIgnoringAutoIsolation(cfg, deviceType, deviceID, strategy, chk) ==
    IF deviceType # RAID
    THEN Outcome(ZeroResult,
                 ErrorsNew("invalid device type for RAID remediation", NilError),
                 FALSE, "")
    ELSE IF chk.Err # NilError
    THEN Outcome(ZeroResult, ErrorsWrap(chk.Err, "failed to check RAID health"),
                 TRUE, "")
    ELSE IF chk.Health.Status = Healthy
    THEN Outcome([DeviceType |-> deviceType, DeviceID |-> deviceID,
                  Action |-> "no action", Success |-> TRUE, Error |-> NilError],
                 NilError, TRUE, "no isolation needed")
    ELSE Outcome([DeviceType |-> deviceType, DeviceID |-> deviceID,
                  Action |-> "isolated", Success |-> TRUE, Error |-> NilError],
                 NilError, TRUE, "isolating RAID controller")

IsolateOutcome(cfg, deviceType, deviceID, strategy, chk) ==
    IF deviceType # RAID
    THEN Outcome(ZeroResult,
                 ErrorsNew("invalid device type for RAID remediation", NilError),
                 FALSE, "")
    ELSE IF ~cfg.AutoIsolation
    THEN Outcome([DeviceType |-> deviceType, DeviceID |-> deviceID,
                  Action |-> "isolation skipped", Success |-> FALSE,
                  Error |-> NilError],
                 NilError, FALSE, "auto-isolation disabled")
    ELSE IF chk.Err # NilError
    THEN Outcome(ZeroResult, ErrorsWrap(chk.Err, "failed to check RAID health"),
                 TRUE, "")
    ELSE IF chk.Health.Status = Healthy
    THEN Outcome([DeviceType |-> deviceType, DeviceID |-> deviceID,
                  Action |-> "no action", Success |-> TRUE, Error |-> NilError],
                 NilError, TRUE, "no isolation needed")
    ELSE Outcome([DeviceType |-> deviceType, DeviceID |-> deviceID,
                  Action |-> "isolated", Success |-> TRUE, Error |-> NilError],
                 NilError, TRUE, "isolating RAID controller")

\* a faulty RecoverOutcome: the health guard is missing, so it recovers
\* whatever the detector reports (C2 fails for it)
RecoverOutcomeNoHealthCheck(deviceType, deviceID, chk) ==
    IF deviceType # RAID
    THEN Outcome(ZeroResult,
                 ErrorsNew("invalid device type for RAID remediation", NilError),
                 FALSE, "")
    ELSE IF chk.Err # NilError
    THEN Outcome(ZeroResult, ErrorsWrap(chk.Err, "failed to check RAID health"),
                 TRUE, "")
    ELSE Outcome([DeviceType |-> deviceType, DeviceID |-> deviceID,
                  Action |-> "recovered", Success |-> TRUE, Error |-> NilError],
                 NilError, TRUE, "recovering RAID controller")

RecoverOutcome(deviceType, deviceID, chk) ==
    IF deviceType # RAID
    THEN Outcome(ZeroResult,
                 ErrorsNew("invalid device type for RAID remediation", NilError),
                 FALSE, "")
    ELSE IF chk.Err # NilError
    THEN Outcome(ZeroResult, ErrorsWrap(chk.Err, "failed to check RAID health"),
                 TRUE, "")
    ELSE IF chk.Health.Status # Healthy
    THEN Outcome([DeviceType |-> deviceType, DeviceID |-> deviceID,
                  Action |-> "recovery failed", Success |-> FALSE,
                  Error |-> ErrorsNew("device not healthy for recovery", NilError)],
                 NilError, TRUE, "cannot recover unhealthy device")
    ELSE Outcome([DeviceType |-> deviceType, DeviceID |-> deviceID,
                  Action |-> "recovered", Success |-> TRUE, Error |-> NilError],
                 NilError, TRUE, "recovering RAID controller")

\* a faulty ApplyAction: the controller is re-enabled before the health check,
\* so a refused recovery has already acted (C7 fails for it)
ApplyActionBeforeCheck(iso, deviceID, action) ==
    IF action = "isolated" THEN [iso EXCEPT ![deviceID] = TRUE]
    ELSE IF action \in {"recovered", "recovery failed"}
    THEN [iso EXCEPT ![deviceID] = FALSE]
    ELSE iso

\* the effect of the action a result reports on the controller it names
ApplyAction(iso, deviceID, action) ==
    IF action = "isolated" THEN [iso EXCEPT ![deviceID] = TRUE]
    ELSE IF action = "recovered" THEN [iso EXCEPT ![deviceID] = FALSE]
    ELSE iso

\* the most recent verdict and the two that precede it, after status st
Remember(hist, st) ==
    LET h == Append(hist, st)
    IN  IF Len(h) > 3 THEN Tail(h) ELSE h

\* the verdict history after a call that may have asked the detector
Observe(hist, checked, chk) ==
    IF checked /\ chk.Err = NilError THEN Remember(hist, chk.Health.Status) ELSE hist

\* the record of a call: its arguments, what it returned, the status the
\* detector gave it (<<>> when the detector was not asked or failed) and
\* whether the device was isolated when the call was made
Call(op, deviceType, deviceID, strategy, out, chk, wasIsolated) ==
    [Op |-> op, DeviceType |-> deviceType, DeviceID |-> deviceID,
     Strategy |-> strategy, Out |-> out,
     Observed |-> IF out.Checked /\ chk.Err = NilError
                  THEN <<chk.Health.Status>> ELSE <<>>,
     WasIsolated |-> wasIsolated]

NoCall ==
    [Op |-> "none", DeviceType |-> RAID, DeviceID |-> 0, Strategy |-> Temporary,
     Out |-> Outcome(ZeroResult, NilError, FALSE, ""), Observed |-> <<>>,
     WasIsolated |-> FALSE]

\* the non-isolated devices other than d
Siblings(iso, d) == {e \in Devices \ {d} : ~iso[e]}

\* a detection tick: the remediator's detector is asked for a verdict
DetectionTick ==
    \E probe \in RemProbes :
        LET chk == CheckResult("raid", detCfg, probe.Sample, probe.Fails)
        IN  /\ verdicts' = Observe(verdicts, TRUE, chk)
            /\ lastCall' = Call("tick", RAID, 0, Temporary,
                                Outcome(ZeroResult, chk.Err, TRUE, ""), chk, FALSE)
            /\ UNCHANGED <<detCfg, detKind, detSample, detOut, remCfg, isolated, storeVars, fcVars, conVars, apiVars>>

Isolate ==
    \E deviceType \in DeviceTypes, deviceID \in Devices,
       strategy \in IsolationStrategies, probe \in RemProbes :
        LET chk == CheckResult("raid", detCfg, probe.Sample, probe.Fails)
            out == IsolateOutcome(remCfg, deviceType, deviceID, strategy, chk)
        IN  /\ isolated' = ApplyAction(isolated, deviceID, out.Result.Action)
            /\ verdicts' = Observe(verdicts, out.Checked, chk)
            /\ lastCall' = Call("isolate", deviceType, deviceID, strategy, out, chk,
                                isolated[deviceID])
            /\ UNCHANGED <<detCfg, detKind, detSample, detOut, remCfg, storeVars, fcVars, conVars, apiVars>>

Recover ==
    \E deviceType \in DeviceTypes, deviceID \in Devices,
       probe \in RemProbes :
        LET chk == CheckResult("raid", detCfg, probe.Sample, probe.Fails)
            out == RecoverOutcome(deviceType, deviceID, chk)
        IN  /\ isolated' = ApplyAction(isolated, deviceID, out.Result.Action)
            /\ verdicts' = Observe(verdicts, out.Checked, chk)
            /\ lastCall' = Call("recover", deviceType, deviceID, Temporary, out, chk,
                                isolated[deviceID])
            /\ UNCHANGED <<detCfg, detKind, detSample, detOut, remCfg, storeVars, fcVars, conVars, apiVars>>

---------------------------------------------------------------------------
(* The history store: storage.FileStorage, one JSON file per device         *)

StorageKeys ==
    { [DeviceType |-> Disk, DeviceID |-> "sda"],
      [DeviceType |-> RAID, DeviceID |-> "ctl0"] }

\* storage.Metric as a caller hands it to Store: Value holds a *SMARTData
Metric(key, ts) ==
    [Timestamp |-> ts, DeviceType |-> key.DeviceType, DeviceID |-> key.DeviceID,
     Value |-> "*SMARTData"]

\* json.MarshalIndent of one metric: Value becomes a JSON object
Marshal(m) == [m EXCEPT !.Value = "object"]

\* json.Unmarshal of one metric into Metric{Value interface{}}: the JSON
\* object is decoded as a map[string]interface{}
Unmarshal(e) == [e EXCEPT !.Value = "map[string]interface{}"]

MarshalAll(ms) == [i \in 1..Len(ms) |-> Marshal(ms[i])]
UnmarshalAll(es) == [i \in 1..Len(es) |-> Unmarshal(es[i])]

\* a file: absent, a JSON array of entries, or bytes that do not parse (the
\* entries a truncated write got out are kept in Entries)
AbsentFile == [State |-> "absent", Entries |-> <<>>]
JSONFile(es) == [State |-> "json", Entries |-> es]
CorruptFile(es) == [State |-> "corrupt", Entries |-> es]

\* what the file system may do to one call: nothing, fail the read, fail to
\* open the file for writing, or fail the write after the file was truncated
\* and Written entries got out
Faults ==
    { [Kind |-> k, Written |-> 0] : k \in {"none", "read", "open"} }
    \cup { [Kind |-> "write", Written |-> n] : n \in 0..MaxLog }
NoFault == [Kind |-> "none", Written |-> 0]

StorageFailure(msg) == CustomError("ERR_STORAGE_FAILURE", msg, ProbeError)

\* a faulty StoreOutcome: a file that does not parse is started afresh with
\* the new metric instead of being refused (C16 fails for it)
StoreOutcomeRestartsCorruptFile(dirs, file, metric, fault) ==
    IF file.State # "absent" /\ fault.Kind = "read"
    THEN [File |-> file, Err |-> StorageFailure("failed to read storage file")]
    ELSE LET old == IF file.State = "json" THEN UnmarshalAll(file.Entries) ELSE <<>>
             data == MarshalAll(Append(old, metric))
         IN  IF metric.DeviceType \notin dirs \/ fault.Kind = "open"
             THEN [File |-> file,
                   Err |-> StorageFailure("failed to write metrics to file")]
             ELSE IF fault.Kind = "write" /\ fault.Written < Len(data)
             THEN [File |-> CorruptFile(SubSeq(data, 1, fault.Written)),
                   Err |-> StorageFailure("failed to write metrics to file")]
             ELSE [File |-> JSONFile(data), Err |-> NilError]

\* FileStorage.Store under its lock: read and parse the file, append, marshal,
\* os.WriteFile (which truncates the file, then writes)
StoreOutcome(dirs, file, metric, fault) ==
    IF file.State = "corrupt" /\ fault.Kind # "read"
    THEN [File |-> file,
          Err |-> StorageFailure("failed to unmarshal existing metrics")]
    ELSE IF file.State # "absent" /\ fault.Kind = "read"
    THEN [File |-> file, Err |-> StorageFailure("failed to read storage file")]
    ELSE LET old == UnmarshalAll(file.Entries)
             data == MarshalAll(Append(old, metric))
         IN  IF metric.DeviceType \notin dirs \/ fault.Kind = "open"
             THEN [File |-> file,
                   Err |-> StorageFailure("failed to write metrics to file")]
             ELSE IF fault.Kind = "write" /\ fault.Written < Len(data)
             THEN [File |-> CorruptFile(SubSeq(data, 1, fault.Written)),
                   Err |-> StorageFailure("failed to write metrics to file")]
             ELSE [File |-> JSONFile(data), Err |-> NilError]

\* the entries of metrics with Timestamp.After(cutoff), in the order held
After(metrics, cutoff) ==
    SelectSeq(metrics, LAMBDA m : m.Timestamp > cutoff)

\* FileStorage.Query under its read lock
QueryOutcome(file, now, window, fault) ==
    IF file.State = "absent"
    THEN [Result |-> <<>>, Err |-> NilError]
    ELSE IF fault.Kind = "read"
    THEN [Result |-> <<>>, Err |-> StorageFailure("failed to read storage file")]
    ELSE IF file.State = "corrupt"
    THEN [Result |-> <<>>, Err |-> StorageFailure("failed to unmarshal metrics")]
    ELSE [Result |-> After(UnmarshalAll(file.Entries), now - window),
          Err |-> NilError]

\* SMARTMonitor.GetHistoricalData on what Query returned: the values that
\* pass the type assertion metric.Value.(*SMARTData)
GetHistoricalData(metrics) ==
    SelectSeq(metrics, LAMBDA m : m.Value = "*SMARTData")

\* the record of a call on the storage
StorageCall(op, key, ts, window, fault, result, err) ==
    [Op |-> op, Key |-> key, Timestamp |-> ts, Window |-> window, Fault |-> fault,
     Result |-> result, Err |-> err]

NoStorageCall ==
    StorageCall("none", [DeviceType |-> Disk, DeviceID |-> ""], 0, 0, NoFault, <<>>,
                NilError)

\* time passes
Tick ==
    /\ clock < MaxTime
    /\ clock' = clock + 1
    /\ UNCHANGED <<detCfg, detVars, remVars, typeDirs, files, lastOp, fcVars, conVars, apiVars>>

\* Store(metric): the caller took the metric's timestamp from time.Now() at or
\* before the call
Store ==
    \E key \in StorageKeys, ts \in 0..MaxTime, fault \in Faults :
        LET out == StoreOutcome(typeDirs, files[key], Metric(key, ts), fault)
        IN  /\ ts <= clock
            /\ Len(files[key].Entries) < MaxLog
            /\ files' = [files EXCEPT ![key] = out.File]
            /\ lastOp' = StorageCall("store", key, ts, 0, fault, <<>>, out.Err)
            /\ UNCHANGED <<detCfg, detVars, remVars, clock, typeDirs, fcVars, conVars, apiVars>>

\* Query(deviceType, deviceID, window)
Query ==
    \E key \in StorageKeys, window \in 0..MaxTime, fault \in Faults :
        LET out == QueryOutcome(files[key], clock, window, fault)
        IN  /\ fault.Kind \in {"none", "read"}
            /\ lastOp' = StorageCall("query", key, clock, window, fault,
                                     out.Result, out.Err)
            /\ UNCHANGED <<detCfg, detVars, remVars, clock, typeDirs, files, fcVars, conVars, apiVars>>

---------------------------------------------------------------------------
(* Forecasts: SMARTMonitor.MonitorPerformance, TrafficAnalyzer.MonitorLatency *)
(* and LSTMPredictor.PredictFailureProbability.  Read error rates are         *)
(* ten-thousandths, probabilities hundredths.                                *)

\* how a stored metric's Value comes back from the Storage: FileStorage
\* decodes it as a map, a Storage that keeps the values hands back *SMARTData
ValueKinds == {"*SMARTData", "map[string]interface{}"}

SMARTPoint(s, e, kind) ==
    [ReallocatedSectors |-> s, ReadErrorRate |-> e, Value |-> kind]

\* the nine samples of a degrading disk: reallocated sectors 1,1,1,10,10,10,
\* 50,50,50, no read errors
DegradingHistory(kind) ==
    [i \in 1..9 |-> SMARTPoint(IF i <= 3 THEN 1 ELSE IF i <= 6 THEN 10 ELSE 50,
                               0, kind)]

\* the windows Query may return to a forecast
Histories ==
    UNION { [1..n -> { SMARTPoint(s, e, kind) : s \in {1, 150}, e \in {0, 100, 300} }] :
              n \in 0..MaxHistory, kind \in ValueKinds }
    \cup { DegradingHistory(kind) : kind \in ValueKinds }

RECURSIVE Sum(_)
Sum(xs) == IF xs = <<>> THEN 0 ELSE xs[1] + Sum(Tail(xs))

\* the values of the entries whose Value asserts to *SMARTData
Reallocated(metrics) ==
    LET smart == SelectSeq(metrics, LAMBDA m : m.Value = "*SMARTData")
    IN  [i \in 1..Len(smart) |-> smart[i].ReallocatedSectors]

ErrorRates(metrics) ==
    LET smart == SelectSeq(metrics, LAMBDA m : m.Value = "*SMARTData")
    IN  [i \in 1..Len(smart) |-> smart[i].ReadErrorRate]

\* SMARTMonitor.calculateIOPSVariance: the population variance of the
\* reallocated sector counts (whole part)
calculateIOPSVariance(metrics) ==
    LET values == Reallocated(metrics)
        n == Len(values)
        squares == [i \in 1..n |-> values[i] * values[i]]
    IN  IF Len(metrics) < 2 \/ n < 2 THEN 0
        ELSE (n * Sum(squares) - Sum(values) * Sum(values)) \div (n * n)

\* SMARTMonitor.analyzeErrorTrend: the last read error rate against the first
analyzeErrorTrend(metrics) ==
    LET errorRates == ErrorRates(metrics)
    IN  IF Len(metrics) < 2 \/ Len(errorRates) < 2 THEN "stable"
        ELSE LET first == errorRates[1]
                 last == errorRates[Len(errorRates)]
             IN  IF 2 * last > 3 * first THEN "increasing"
                 ELSE IF 2 * last < first THEN "decreasing"
                 ELSE "stable"

\* SMARTMonitor.predictFailure
predictFailure(metrics) ==
    IF Len(metrics) < 3 THEN FALSE
    ELSE LET latest == metrics[Len(metrics)]
         IN  /\ latest.Value = "*SMARTData"
             /\ (latest.ReallocatedSectors > 50 \/ latest.ReadErrorRate > 500)

\* what a forecast call returns (the fields a call does not have are zero)
Forecast(op, queryFails, modelOut, p95, probability, latencyTrend, errorTrend, variance, predicted, err) ==
    [Op |-> op, QueryFails |-> queryFails, ModelOut |-> modelOut,
     LatencyP95 |-> p95, Probability |-> probability,
     LatencyTrend |-> latencyTrend, ErrorTrend |-> errorTrend,
     IOPSVariance |-> variance, PredictedFailure |-> predicted, Err |-> err]

NoForecast == Forecast("none", FALSE, 0, 0, 0, "", "", 0, FALSE, NilError)

\* SMARTMonitor.MonitorPerformance on the metrics Query returned
MonitorPerformanceOutcome(metrics, queryFails) ==
    IF queryFails
    THEN Forecast("monitor", TRUE, 0, 0, 0, "", "", 0, FALSE,
                  ErrorsWrap(StorageFailure("failed to read storage file"),
                             "failed to query historical SMART data"))
    ELSE IF Len(metrics) < 2
    THEN Forecast("monitor", FALSE, 0, 0, 0, "stable", "stable", 0, FALSE, NilError)
    ELSE Forecast("monitor", FALSE, 0, 0, 0, "", analyzeErrorTrend(metrics),
                  calculateIOPSVariance(metrics), predictFailure(metrics), NilError)

\* LSTMModel.Predict is a placeholder that returns 0.75; the model it stands
\* for may return any number, which is what the range check of
\* PredictFailureProbability is for
MockProbability == 75
ModelOutputs == {-10, 0, 29, 30, 69, 70, MockProbability, 100, 110}

\* LSTMPredictor.PredictFailureProbability: the features and the model's
\* output do not depend on the metrics
PredictOutcome(metrics, queryFails, modelOut) ==
    IF queryFails
    THEN Forecast("predict", TRUE, modelOut, 0, 0, "", "", 0, FALSE,
                  StorageFailure("failed to query historical data"))
    ELSE IF modelOut < 0 \/ modelOut > 100
    THEN Forecast("predict", FALSE, modelOut, 0, 0, "", "", 0, FALSE,
                  ErrorsNew("invalid prediction probability", NilError))
    ELSE Forecast("predict", FALSE, modelOut, 0, modelOut, "", "", 0, FALSE,
                  NilError)

\* TrafficAnalyzer.MonitorLatency: the trend is read off the current p95
\* latency (ms); no history is consulted
MonitorLatencyOutcome(p95, collectFails) ==
    IF collectFails
    THEN Forecast("latency", TRUE, 0, 0, 0, "", "", 0, FALSE,
                  CustomError("ERR_NETWORK_PACKET_LOSS",
                              "failed to collect network metrics for latency monitoring",
                              ProbeError))
    ELSE Forecast("latency", FALSE, 0, p95, 0,
                  IF p95 > 100 THEN "increasing"
                  ELSE IF p95 < 50 THEN "decreasing" ELSE "stable",
                  "", 0, FALSE, NilError)

\* one forecast call on the window the device has (history is what Query
\* returns when it does not fail)
MonitorPerformance ==
    \E queryFails \in BOOLEAN :
        /\ forecast = NoForecast
        /\ forecast' = MonitorPerformanceOutcome(history, queryFails)
        /\ UNCHANGED <<detCfg, detVars, remVars, storeVars, history, conVars, apiVars>>

PredictFailureProbability ==
    \E queryFails \in BOOLEAN, modelOut \in ModelOutputs :
        /\ forecast = NoForecast
        /\ forecast' = PredictOutcome(history, queryFails, modelOut)
        /\ UNCHANGED <<detCfg, detVars, remVars, storeVars, history, conVars, apiVars>>

MonitorLatency ==
    \E p95 \in {20, 50, 75, 100, 150}, collectFails \in BOOLEAN :
        /\ forecast = NoForecast
        /\ history = <<>>
        /\ forecast' = MonitorLatencyOutcome(p95, collectFails)
        /\ UNCHANGED <<detCfg, detVars, remVars, storeVars, history, conVars, apiVars>>

---------------------------------------------------------------------------
(* Concurrent callers: goroutines that call SMARTMonitor.ParseSMART,        *)
(* FileStorage.Store and FileStorage.Query on one FileStorage.  Each call   *)
(* is a sequence of steps; the only synchronisation in the code is          *)
(* FileStorage.mu, which Store takes exclusively and Query shared.          *)

Goroutines == 1..NumGoroutines

\* the device ParseSMART stores for: enum.Disk and the device id of the data
SMARTKey == [DeviceType |-> Disk, DeviceID |-> "sda"]

\* a window that covers every timestamp of the model
WholeWindow == NumGoroutines + 1

\* a goroutine that has not called anything yet
NoProc ==
    [pc |-> "idle", Op |-> "none", Key |-> [DeviceType |-> Disk, DeviceID |-> ""],
     Timestamp |-> 0, Local |-> <<>>, Err |-> NilError]

\* sync.RWMutex: the goroutine holding it exclusively (0: none) and the
\* goroutines holding it shared
FreeMutex == [Writer |-> 0, Readers |-> {}]

\* a faulty CanLock: Lock never waits (C25 fails for it)
CanLockWithoutWaiting(m) == TRUE

\* mu.Lock() returns when nobody holds the mutex
CanLock(m) == m.Writer = 0 /\ m.Readers = {}

\* mu.RLock() returns when nobody holds the mutex exclusively
CanRLock(m) == m.Writer = 0

\* the calls that have started and not returned
InFlight == {g \in Goroutines : procs[g].pc \notin {"idle", "done"}}

\* goroutines are numbered in the order their calls begin
NextToStart(g) ==
    /\ procs[g].pc = "idle"
    /\ \A h \in Goroutines : h < g => procs[h].pc # "idle"

\* ParseSMART, up to the parsed SMARTData: Timestamp is time.Now()
ParseSMARTBegin ==
    \E g \in Goroutines :
        /\ NextToStart(g)
        /\ procs' = [procs EXCEPT ![g] = [NoProc EXCEPT !.pc = "assess", !.Op = "parse",
                                              !.Key = SMARTKey, !.Timestamp = clock]]
        /\ clock' = clock + 1
        /\ UNCHANGED <<detCfg, detVars, remVars, typeDirs, files, lastOp, fcVars, mu, committed, coreCfg, apiVars>>

\* ParseSMART: smartData.OverallStatus = assessOverallHealth(smartData), then
\* the metric is handed to Store
ParseSMARTAssess ==
    \E g \in Goroutines :
        /\ procs[g].pc = "assess"
        /\ procs' = [procs EXCEPT ![g].pc = "lock"]
        /\ UNCHANGED <<detCfg, detVars, remVars, storeVars, fcVars, mu, committed, coreCfg, apiVars>>

\* a caller hands Store a metric it stamped with time.Now()
StoreCall ==
    \E g \in Goroutines, key \in StorageKeys :
        /\ NextToStart(g)
        /\ procs' = [procs EXCEPT ![g] = [NoProc EXCEPT !.pc = "lock", !.Op = "store",
                                              !.Key = key, !.Timestamp = clock]]
        /\ clock' = clock + 1
        /\ UNCHANGED <<detCfg, detVars, remVars, typeDirs, files, lastOp, fcVars, mu, committed, coreCfg, apiVars>>

\* Store: fs.mu.Lock()
StoreLock ==
    \E g \in Goroutines :
        /\ procs[g].pc = "lock"
        /\ CanLock(mu)
        /\ mu' = [mu EXCEPT !.Writer = g]
        /\ procs' = [procs EXCEPT ![g].pc = "read"]
        /\ UNCHANGED <<detCfg, detVars, remVars, storeVars, fcVars, committed, coreCfg, apiVars>>

\* Store: os.ReadFile, json.Unmarshal, append(metrics, metric)
StoreRead ==
    \E g \in Goroutines :
        LET p == procs[g]
            file == files[p.Key]
        IN  /\ p.pc = "read"
            /\ procs' = [procs EXCEPT ![g] =
                  IF file.State = "corrupt"
                  THEN [p EXCEPT !.pc = "unlock",
                          !.Err = StorageFailure("failed to unmarshal existing metrics")]
                  ELSE [p EXCEPT !.pc = "truncate",
                          !.Local = Append(UnmarshalAll(file.Entries),
                                           Metric(p.Key, p.Timestamp))]]
            /\ UNCHANGED <<detCfg, detVars, remVars, storeVars, fcVars, mu, committed, coreCfg, apiVars>>

\* Store: os.WriteFile opens the file with O_CREATE|O_TRUNC; it fails when the
\* device-type directory does not exist
StoreTruncate ==
    \E g \in Goroutines :
        LET p == procs[g]
        IN  /\ p.pc = "truncate"
            /\ IF p.Key.DeviceType \notin typeDirs
               THEN /\ procs' = [procs EXCEPT ![g] =
                          [p EXCEPT !.pc = "unlock", !.Local = <<>>,
                             !.Err = StorageFailure("failed to write metrics to file")]]
                    /\ files' = files
               ELSE /\ procs' = [procs EXCEPT ![g].pc = "write"]
                    /\ files' = [files EXCEPT ![p.Key] = CorruptFile(<<>>)]
            /\ UNCHANGED <<detCfg, detVars, remVars, clock, typeDirs, lastOp, fcVars, mu, committed, coreCfg, apiVars>>

\* Store: os.WriteFile writes the marshalled metrics and closes the file
StoreWrite ==
    \E g \in Goroutines :
        LET p == procs[g]
        IN  /\ p.pc = "write"
            /\ files' = [files EXCEPT ![p.Key] = JSONFile(MarshalAll(p.Local))]
            /\ committed' = [committed EXCEPT ![p.Key] =
                                Append(@, Metric(p.Key, p.Timestamp))]
            /\ procs' = [procs EXCEPT ![g] = [p EXCEPT !.pc = "unlock", !.Local = <<>>]]
            /\ UNCHANGED <<detCfg, detVars, remVars, clock, typeDirs, lastOp, fcVars, mu, coreCfg, apiVars>>

\* Store: the deferred fs.mu.Unlock(), and the return
StoreUnlock ==
    \E g \in Goroutines :
        /\ procs[g].pc = "unlock"
        /\ mu' = [mu EXCEPT !.Writer = 0]
        /\ procs' = [procs EXCEPT ![g].pc = "done"]
        /\ UNCHANGED <<detCfg, detVars, remVars, storeVars, fcVars, committed, coreCfg, apiVars>>

\* Query: fs.mu.RLock()
QueryRLock ==
    \E g \in Goroutines, key \in StorageKeys :
        /\ NextToStart(g)
        /\ CanRLock(mu)
        /\ mu' = [mu EXCEPT !.Readers = @ \cup {g}]
        /\ procs' = [procs EXCEPT ![g] = [NoProc EXCEPT !.pc = "qread", !.Op = "query",
                                              !.Key = key]]
        /\ UNCHANGED <<detCfg, detVars, remVars, storeVars, fcVars, committed, coreCfg, apiVars>>

\* Query: os.ReadFile, json.Unmarshal, the window filter
QueryRead ==
    \E g \in Goroutines :
        LET p == procs[g]
            out == QueryOutcome(files[p.Key], clock, WholeWindow, NoFault)
        IN  /\ p.pc = "qread"
            /\ procs' = [procs EXCEPT ![g] =
                            [p EXCEPT !.pc = "runlock", !.Local = out.Result,
                               !.Err = out.Err]]
            /\ UNCHANGED <<detCfg, detVars, remVars, storeVars, fcVars, mu, committed, coreCfg, apiVars>>

\* Query: the deferred fs.mu.RUnlock(), and the return
QueryRUnlock ==
    \E g \in Goroutines :
        /\ procs[g].pc = "runlock"
        /\ mu' = [mu EXCEPT !.Readers = @ \ {g}]
        /\ procs' = [procs EXCEPT ![g].pc = "done"]
        /\ UNCHANGED <<detCfg, detVars, remVars, storeVars, fcVars, committed, coreCfg, apiVars>>

---------------------------------------------------------------------------
(* Library entry points called one at a time                                *)

\* the record of a call: what it was given and the (result, error) pair it
\* returned; Returned is <<>> for a nil result
APICall(op, input, returned, err) ==
    [Op |-> op, Input |-> input, Returned |-> returned, Err |-> err]

NoAPICall == APICall("none", <<>>, <<>>, NilError)

\* the raw text ParseSMART is given: the empty string, or text whose
\* attributes parse to the given data
RawInputs ==
    { [Empty |-> TRUE, Data |-> NoSample] }
    \cup { [Empty |-> FALSE, Data |-> d] : d \in SMARTSamples }

\* SMARTMonitor.ParseSMART up to the metric it hands to Store
ParseSMARTOutcome(rawData, now) ==
    IF rawData.Empty
    THEN [Returned |-> <<>>, Stores |-> FALSE,
          Err |-> ErrorsNew("empty SMART data provided", NilError)]
    ELSE [Returned |-> << [Data |-> rawData.Data, Timestamp |-> now,
                           OverallStatus |-> assessOverallHealth(rawData.Data)] >>,
          Stores |-> TRUE, Err |-> NilError]

\* ParseSMART(rawData): the Store error is logged, not returned
ParseSMART ==
    \E rawData \in RawInputs :
        LET out == ParseSMARTOutcome(rawData, clock)
            st == StoreOutcome(typeDirs, files[SMARTKey], Metric(SMARTKey, clock), NoFault)
        IN  /\ apiCall.Op \in {"none", "ParseSMART"}
            /\ out.Stores => Len(files[SMARTKey].Entries) < MaxLog
            /\ files' = IF out.Stores THEN [files EXCEPT ![SMARTKey] = st.File] ELSE files
            /\ apiCall' = APICall("ParseSMART", rawData, out.Returned, out.Err)
            /\ UNCHANGED <<detCfg, detVars, remVars, clock, typeDirs, lastOp, fcVars, conVars>>

InterfaceNames == {"", "eth0"}

\* NetworkTrafficAnalyzer.AnalyzeTraffic; the P50 latencies are microseconds,
\* the throughput is Mbps
AnalyzeTrafficOutcome(interfaceName, m, bytesPerSecond, collectFails) ==
    IF interfaceName = ""
    THEN [Returned |-> <<>>,
          Err |-> ErrorsNew("empty interface name provided", NilError)]
    ELSE IF collectFails
    THEN [Returned |-> <<>>,
          Err |-> CustomError("ERR_NETWORK_PACKET_LOSS",
                              "failed to collect network metrics", ProbeError)]
    ELSE [Returned |-> << [Interface |-> interfaceName,
                           TCPLatencyP50 |-> (m.LatencyP95 * 1000) \div 2,
                           TCPLatencyP95 |-> m.LatencyP95,
                           UDPLatencyP50 |-> (m.LatencyP95 * 1000) \div 2,
                           UDPLatencyP95 |-> m.LatencyP95,
                           PacketLossRate |-> m.PacketLossRate,
                           ThroughputMbps |-> (bytesPerSecond * 8) \div 1000000] >>,
          Err |-> NilError]

AnalyzeTraffic ==
    \E interfaceName \in InterfaceNames, m \in NetworkSamples,
       bytesPerSecond \in {0, 125000000}, collectFails \in BOOLEAN :
        /\ apiCall = NoAPICall
        /\ apiCall' = APICall("AnalyzeTraffic",
                              [Interface |-> interfaceName, Sample |-> m],
                              AnalyzeTrafficOutcome(interfaceName, m, bytesPerSecond,
                                                    collectFails).Returned,
                              AnalyzeTrafficOutcome(interfaceName, m, bytesPerSecond,
                                                    collectFails).Err)
        /\ UNCHANGED <<detCfg, detVars, remVars, storeVars, fcVars, conVars>>

\* NetworkTrafficAnalyzer.MonitorLatency(interfaceName, window)
MonitorLatencyCallOutcome(interfaceName, p95, collectFails) ==
    IF interfaceName = ""
    THEN [Returned |-> <<>>,
          Err |-> ErrorsNew("empty interface name provided", NilError)]
    ELSE LET f == MonitorLatencyOutcome(p95, collectFails)
         IN  [Returned |-> IF f.Err = NilError THEN <<f>> ELSE <<>>, Err |-> f.Err]

MonitorLatencyCall ==
    \E interfaceName \in InterfaceNames, p95 \in {20, 50, 75, 100, 150},
       collectFails \in BOOLEAN :
        /\ apiCall = NoAPICall
        /\ apiCall' = APICall("MonitorLatency",
                              [Interface |-> interfaceName, LatencyP95 |-> p95],
                              MonitorLatencyCallOutcome(interfaceName, p95,
                                                        collectFails).Returned,
                              MonitorLatencyCallOutcome(interfaceName, p95,
                                                        collectFails).Err)
        /\ UNCHANGED <<detCfg, detVars, remVars, storeVars, fcVars, conVars>>

(* chaos.ChaosExperiment.Execute *)

NetworkLatency == "network_latency"
DiskIOPS == "disk_iops"
FaultTypes == {NetworkLatency, DiskIOPS, "cpu_stress"}

\* a value of config.Parameters: the key is missing, holds a string, or holds
\* a float64
ParamValues ==
    { [Kind |-> "missing", Value |-> 0], [Kind |-> "string", Value |-> 0] }
    \cup { [Kind |-> "float64", Value |-> v] : v \in {-1, 0, 100} }

\* the type assertion .(float64) succeeds and the value is positive
ValidParam(p) == p.Kind = "float64" /\ p.Value > 0

ExperimentConfigs ==
    [FaultType : FaultTypes, DeviceType : {Disk, Network}, DeviceID : {"dev0"},
     LatencyMs : ParamValues, IopsLimit : ParamValues]

\* when the context is cancelled: never, before the call, while the fault is
\* active, or at the instant the duration expires
Cancellations == {"never", "before", "during", "at_expiry"}

\* the case the final select may take: the timer or ctx.Done()
SelectCases(cancel) ==
    CASE cancel = "during" -> {"done"}
      [] cancel = "at_expiry" -> {"timer", "done"}
      [] OTHER -> {"timer"}

\* ctx.Err() of a cancelled context
ContextCanceled == [Code |-> "context", Message |-> "context canceled"]

\* the select at the end of Execute
AwaitDuration(result, case) ==
    IF case = "done"
    THEN [Result |-> [result EXCEPT !.Error = ContextCanceled, !.Success = FALSE],
          Err |-> NilError]
    ELSE [Result |-> result, Err |-> NilError]

ExecuteOutcome(config, cancel, case) ==
    LET result == [FaultType |-> config.FaultType, DeviceType |-> config.DeviceType,
                   DeviceID |-> config.DeviceID, Success |-> FALSE,
                   Error |-> NilError, Observations |-> {}]
    IN  IF cancel = "before"
        THEN [Result |-> result,
              Err |-> ErrorsNew("context cancelled before execution", ContextCanceled)]
        ELSE IF config.FaultType = NetworkLatency
        THEN IF ~ValidParam(config.LatencyMs)
             THEN [Result |-> result,
                   Err |-> ErrorsNew("invalid or missing latency_ms parameter", NilError)]
             ELSE AwaitDuration(
                      [result EXCEPT !.Success = TRUE,
                          !.Observations = {[Key |-> "injected_latency_ms",
                                             Value |-> config.LatencyMs.Value]}],
                      case)
        ELSE IF config.FaultType = DiskIOPS
        THEN IF ~ValidParam(config.IopsLimit)
             THEN [Result |-> result,
                   Err |-> ErrorsNew("invalid or missing iops_limit parameter", NilError)]
             ELSE AwaitDuration(
                      [result EXCEPT !.Success = TRUE,
                          !.Observations = {[Key |-> "injected_iops_limit",
                                             Value |-> config.IopsLimit.Value]}],
                      case)
        ELSE [Result |-> result, Err |-> ErrorsNew("unsupported fault type", NilError)]

Execute ==
    \E config \in ExperimentConfigs, cancel \in Cancellations :
        \E case \in SelectCases(cancel) :
            /\ apiCall = NoAPICall
            /\ apiCall' = APICall("Execute", [Config |-> config, Cancel |-> cancel],
                                  <<ExecuteOutcome(config, cancel, case).Result>>,
                                  ExecuteOutcome(config, cancel, case).Err)
            /\ UNCHANGED <<detCfg, detVars, remVars, storeVars, fcVars, conVars>>

(* slo.SLOValidator: availabilities are hundredths of a percent *)

Critical == "critical"
NonCritical == "non_critical"

\* enum.DeviceType.String
DeviceTypeString(d) ==
    CASE d = RAID -> "raid"
      [] d = Disk -> "disk"
      [] d = Network -> "network"

SLOConfig(tier, maxLatency, minThroughput, maxThroughputLoss, minAvailability) ==
    [ServiceTier |-> tier, MaxLatency |-> maxLatency, MinThroughput |-> minThroughput,
     MaxThroughputLoss |-> maxThroughputLoss, MinAvailability |-> minAvailability]

\* the map initDefaultConfigs fills
initDefaultConfigs ==
    [k \in {"RAID_critical", "RAID_non_critical", "Disk_critical",
            "Disk_non_critical", "Network_critical", "Network_non_critical"} |->
        CASE k = "RAID_critical" -> SLOConfig(Critical, 50, 500, 10, 9990)
          [] k = "RAID_non_critical" -> SLOConfig(NonCritical, 100, 200, 20, 9900)
          [] k = "Disk_critical" -> SLOConfig(Critical, 30, 100, 5, 9995)
          [] k = "Disk_non_critical" -> SLOConfig(NonCritical, 100, 50, 15, 9800)
          [] k = "Network_critical" -> SLOConfig(Critical, 10, 1000, 5, 9999)
          [] k = "Network_non_critical" -> SLOConfig(NonCritical, 50, 100, 20, 9900)]

GetSLOConfig(configs, deviceType, serviceTier) ==
    LET key == DeviceTypeString(deviceType) \o "_" \o serviceTier
    IN  IF key \in DOMAIN configs
        THEN configs[key]
        ELSE SLOConfig(NonCritical, 100, 50, 20, 9500)

\* a GetSLOConfig call on a validator made by NewSLOValidator
LookupSLOConfig ==
    \E deviceType \in DeviceTypes, serviceTier \in {Critical, NonCritical, "best_effort"} :
        /\ apiCall = NoAPICall
        /\ apiCall' = APICall("GetSLOConfig",
                              [DeviceType |-> deviceType, ServiceTier |-> serviceTier],
                              <<GetSLOConfig(initDefaultConfigs, deviceType, serviceTier)>>,
                              NilError)
        /\ UNCHANGED <<detCfg, detVars, remVars, storeVars, fcVars, conVars>>

---------------------------------------------------------------------------
(* Specifications *)

ConcurrencyIdle ==
    /\ procs = [g \in Goroutines |-> NoProc]
    /\ mu = FreeMutex
    /\ committed = [k \in StorageKeys |-> <<>>]
    /\ coreCfg = [Workers |-> 4]

APIIdle == apiCall = NoAPICall

StorageIdle ==
    /\ clock = 0
    /\ typeDirs = {}
    /\ files = [k \in StorageKeys |-> AbsentFile]
    /\ lastOp = NoStorageCall

ForecastIdle ==
    /\ history = <<>>
    /\ forecast = NoForecast

DetectIdle ==
    /\ detKind = "none"
    /\ detSample = NoSample
    /\ detOut = [Health |-> ZeroHealth, Err |-> NilError]

RemediationIdle ==
    /\ isolated = [d \in Devices |-> FALSE]
    /\ verdicts = <<>>
    /\ lastCall = NoCall

\* the detectors alone
InitDetect ==
    /\ detCfg \in DetConfigs
    /\ remCfg \in RemConfigs
    /\ DetectIdle
    /\ RemediationIdle
    /\ StorageIdle
    /\ ForecastIdle
    /\ ConcurrencyIdle
    /\ APIIdle

NextDetect ==
    \/ CheckRAIDSubHealth
    \/ CheckRAIDHealth
    \/ CheckDiskSubHealth
    \/ CheckNetworkSubHealth
    \/ AssessSMART

SpecDetect == InitDetect /\ [][NextDetect]_vars

\* the remediator and its detector
Init ==
    /\ detCfg \in {c \in DetConfigs : c.FirmwareVersion = ""}
    /\ remCfg \in RemConfigs
    /\ DetectIdle
    /\ RemediationIdle
    /\ StorageIdle
    /\ ForecastIdle
    /\ ConcurrencyIdle
    /\ APIIdle

Next ==
    \/ DetectionTick
    \/ Isolate
    \/ Recover

Spec == Init /\ [][Next]_vars

\* the history store: NewFileStorage on a base directory that holds no
\* device-type directory yet, or on one that was provisioned with them
InitStore ==
    /\ detCfg \in {c \in DetConfigs : c.FirmwareVersion = ""}
    /\ remCfg \in {c \in RemConfigs : c.AutoIsolation}
    /\ DetectIdle
    /\ RemediationIdle
    /\ ForecastIdle
    /\ clock = 0
    /\ typeDirs \in {{}, DeviceTypes}
    /\ files = [k \in StorageKeys |-> AbsentFile]
    /\ lastOp = NoStorageCall
    /\ ConcurrencyIdle
    /\ APIIdle

NextStore ==
    \/ Tick
    \/ Store
    \/ Query

SpecStore == InitStore /\ [][NextStore]_vars

\* the forecasts, each over one of the windows a device may have
InitForecast ==
    /\ detCfg \in {c \in DetConfigs : c.FirmwareVersion = ""}
    /\ remCfg \in {c \in RemConfigs : c.AutoIsolation}
    /\ DetectIdle
    /\ RemediationIdle
    /\ StorageIdle
    /\ history \in Histories
    /\ forecast = NoForecast
    /\ ConcurrencyIdle
    /\ APIIdle

NextForecast ==
    \/ MonitorPerformance
    \/ PredictFailureProbability
    \/ MonitorLatency

SpecForecast == InitForecast /\ [][NextForecast]_vars

\* goroutines calling ParseSMART, Store and Query on one FileStorage
InitWorkers ==
    /\ detCfg \in {c \in DetConfigs : c.FirmwareVersion = ""}
    /\ remCfg \in {c \in RemConfigs : c.AutoIsolation}
    /\ DetectIdle
    /\ RemediationIdle
    /\ ForecastIdle
    /\ APIIdle
    /\ clock = 0
    /\ typeDirs \in {{}, DeviceTypes}
    /\ files = [k \in StorageKeys |-> AbsentFile]
    /\ lastOp = NoStorageCall
    /\ procs = [g \in Goroutines |-> NoProc]
    /\ mu = FreeMutex
    /\ committed = [k \in StorageKeys |-> <<>>]
    /\ coreCfg \in [Workers : {1, 2, 4}]

NextWorkers ==
    \/ ParseSMARTBegin
    \/ ParseSMARTAssess
    \/ StoreCall
    \/ StoreLock
    \/ StoreRead
    \/ StoreTruncate
    \/ StoreWrite
    \/ StoreUnlock
    \/ QueryRLock
    \/ QueryRead
    \/ QueryRUnlock

SpecWorkers == InitWorkers /\ [][NextWorkers]_vars

\* the library entry points, called one at a time on a FileStorage whose
\* device-type directories may or may not exist.  ParseSMART calls follow one
\* another (they share the storage); the calls that depend on nothing but
\* their arguments are each made once
InitAPI ==
    /\ detCfg \in {c \in DetConfigs : c.FirmwareVersion = ""}
    /\ remCfg \in {c \in RemConfigs : c.AutoIsolation}
    /\ DetectIdle
    /\ RemediationIdle
    /\ ForecastIdle
    /\ ConcurrencyIdle
    /\ clock = 0
    /\ typeDirs \in {{}, DeviceTypes}
    /\ files = [k \in StorageKeys |-> AbsentFile]
    /\ lastOp = NoStorageCall
    /\ apiCall = NoAPICall

NextAPI ==
    \/ ParseSMART
    \/ AnalyzeTraffic
    \/ MonitorLatencyCall
    \/ Execute
    \/ LookupSLOConfig

SpecAPI == InitAPI /\ [][NextAPI]_vars

---------------------------------------------------------------------------
(* Properties of the remediator (checked under Spec)                       *)

\* the path-preservation floor: max(min_healthy_paths,
\* ceil(preserve_paths_ratio * population)), the ratio in hundredths
PathFloor(cfg, population) ==
    Max({cfg.MinHealthyPaths, (cfg.PreservePathsRatio * population + 99) \div 100})

IsCall(op) == lastCall.Op = op
Dispatched(op, action) == lastCall.Op = op /\ lastCall.Out.Result.Action = action

\* C1: an isolation is dispatched only if the non-isolated siblings that
\* remain after it number at least the path-preservation floor.
C1_PathPreservation ==
    Dispatched("isolate", "isolated") =>
        Cardinality(Siblings(isolated, lastCall.DeviceID))
            >= PathFloor(remCfg, Cardinality(Devices))

\* C2: a device goes from isolated to not isolated only in a Recover call for
\* that device whose detector verdict is Healthy.
C2_UnisolateOnlyByHealthyRecover ==
    [][\A d \in Devices :
          (isolated[d] /\ ~isolated'[d]) =>
              /\ lastCall'.Op = "recover"
              /\ lastCall'.DeviceID = d
              /\ lastCall'.Out.Result.Action = "recovered"
              /\ lastCall'.Observed = <<Healthy>>]_vars

C2_Witness ==
    /\ Dispatched("recover", "recovered")
    /\ lastCall.WasIsolated
    /\ ~isolated[lastCall.DeviceID]
    /\ lastCall.Observed = <<Healthy>>

\* C3: with auto-isolation disabled no device is ever isolated, no Isolate
\* call reports "isolated", and every Isolate call for a RAID device is
\* answered by the skip result logged as "auto-isolation disabled", without
\* the detector being asked.
C3_AutoIsolationDisabled ==
    ~remCfg.AutoIsolation =>
        /\ \A d \in Devices : ~isolated[d]
        /\ IsCall("isolate") =>
             /\ lastCall.Out.Result.Action # "isolated"
             /\ lastCall.Observed = <<>>
             /\ lastCall.DeviceType = RAID =>
                  /\ lastCall.Out.Result.Action = "isolation skipped"
                  /\ ~lastCall.Out.Result.Success
                  /\ lastCall.Out.Err = NilError
                  /\ lastCall.Out.Log = "auto-isolation disabled"

C3_Witness ==
    /\ ~remCfg.AutoIsolation
    /\ Dispatched("isolate", "isolation skipped")
    /\ lastCall.DeviceType = RAID
    /\ lastCall.Strategy = Permanent

\* the verdicts that precede the most recent one (at most two)
Preceding(hist) == {hist[i] : i \in 1..(Len(hist) - 1)}

\* C4: a recovery is dispatched only when the most recent verdict is Healthy
\* and neither of the two verdicts before it was Failed.
C4_RecoveryGate ==
    (Dispatched("recover", "recovered") /\ lastCall.WasIsolated) =>
        /\ Len(verdicts) >= 1
        /\ verdicts[Len(verdicts)] = Healthy
        /\ Failed \notin Preceding(verdicts)

\* verdicts that alternate between Healthy and SubHealthy
Alternating(hist) ==
    /\ Len(hist) >= 2
    /\ \A i \in 1..Len(hist) : hist[i] \in {Healthy, SubHealthy}
    /\ \A i \in 1..(Len(hist) - 1) : hist[i] # hist[i + 1]

\* C5: while the verdicts alternate Healthy / SubHealthy, an isolated device
\* stays isolated (no recovery is dispatched for it).
C5_FlapSuppression ==
    [][\A d \in Devices :
          (isolated[d] /\ Alternating(verdicts')) => isolated'[d]]_vars

\* the number of consecutive SubHealthy verdicts ending the history
RECURSIVE ConsecutiveSubHealth(_)
ConsecutiveSubHealth(hist) ==
    IF hist = <<>> \/ hist[Len(hist)] # SubHealthy THEN 0
    ELSE 1 + ConsecutiveSubHealth(SubSeq(hist, 1, Len(hist) - 1))

\* C6: what is dispatched follows the selection table: an isolation is
\* permanent on a Failed verdict, temporary on a SubHealthy verdict that
\* completes Kthr consecutive sub-healthy ticks (for some Kthr of 1..3), and a
\* recovery is dispatched on a Healthy verdict for an isolated device.
C6_ActionSelection ==
    /\ Dispatched("isolate", "isolated") =>
         \/ lastCall.Observed = <<Failed>> /\ lastCall.Strategy = Permanent
         \/ /\ lastCall.Observed = <<SubHealthy>>
            /\ lastCall.Strategy = Temporary
            /\ \E kthr \in 1..3 : ConsecutiveSubHealth(verdicts) >= kthr
    /\ Dispatched("recover", "recovered") =>
         lastCall.Observed = <<Healthy>> /\ lastCall.WasIsolated

\* an Isolate or Recover call that failed: success=false, or an error returned
CallFailed(c) ==
    /\ c.Op \in {"isolate", "recover"}
    /\ (~c.Out.Result.Success \/ c.Out.Err # NilError)

SameRequest(c, e) ==
    /\ c.Op = e.Op
    /\ c.DeviceType = e.DeviceType
    /\ c.DeviceID = e.DeviceID
    /\ c.Strategy = e.Strategy
    /\ c.Observed = e.Observed

---------------------------------------------------------------------------
(* Properties of the detectors (checked under SpecDetect)                  *)

Checked == detKind \in DetectorKinds /\ detOut.Err = NilError
Triggered == RulesTriggered(detKind, detCfg, detSample)

\* C8: the status a detector returns is the highest severity among the rules
\* the sample triggers (Healthy when none does).
C8_StatusIsMaxSeverity ==
    Checked =>
        detOut.Health.Status =
            Max({Healthy} \cup {RuleStatus(detKind, r) : r \in Triggered})

\* C9: the confidence a detector returns is the lowest confidence among the
\* rules the sample triggers (1.0 when none does).
C9_ConfidenceIsMin ==
    Checked =>
        detOut.Health.Confidence =
            Min({100} \cup {RuleConfidence(detKind, r) : r \in Triggered})

\* C10: a disk sample with more than 100 reallocated sectors is classified
\* Failed with confidence 0.99 and the recommendation "immediate isolation
\* and replacement".
C10_DiskReallocatedCritical ==
    (Checked /\ detKind = "disk" /\ detSample.ReallocatedSectors > 100) =>
        /\ detOut.Health.Status = Failed
        /\ detOut.Health.Confidence = 99
        /\ detOut.Health.Recommendation = "immediate isolation and replacement"

\* a check that returned a verdict, by any classifier of the repository
Classified == Checked \/ detKind = "smart"

\* C11: exactly at a threshold every classifier follows the rule table's
\* operators: queue_depth = Qthr triggers the queue rule (not Healthy),
\* avg_latency = Lthr alone does not trigger, error_retry_rate = 100 is not
\* Failed, and reallocated_sectors = 100 is SubHealthy (the warn band
\* 10 < r <= 100), neither Healthy nor Failed.
C11_ThresholdBoundaries ==
    Classified =>
        /\ (detKind \in {"raid", "raidctl"}
               /\ detSample.QueueDepth = detCfg.QueueThreshold) =>
             detOut.Health.Status # Healthy
        /\ (detKind = "raid" /\ detSample.AvgLatency = detCfg.LatencyThreshold
               /\ detSample.QueueDepth < detCfg.QueueThreshold
               /\ detSample.ErrorRetryRate <= 100) =>
             detOut.Health.Status = Healthy
        /\ (detKind \in {"raid", "raidctl"} /\ detSample.ErrorRetryRate = 100) =>
             detOut.Health.Status # Failed
        /\ (detKind \in {"disk", "smart"} /\ detSample.ReallocatedSectors = 100
               /\ detSample.ReadErrorRate <= 1000) =>
             detOut.Health.Status = SubHealthy

\* C12: every classifier output is well formed: the confidence is in (0, 1]
\* (never 0), the status is one of Healthy, SubHealthy, Failed, and the status
\* is Healthy exactly when no rule triggered (a Healthy verdict carries no
\* issue: its recommendation is "no action required").
C12_VerdictWellFormed ==
    /\ Checked =>
         /\ detOut.Health.Confidence \in 1..100
         /\ detOut.Health.Status \in HealthStatuses
         /\ detOut.Health.Status = Healthy <=> Triggered = {}
         /\ detOut.Health.Status = Healthy =>
              detOut.Health.Recommendation = "no action required"
    /\ detKind = "smart" =>
         /\ detOut.Health.Status \in HealthStatuses
         /\ detOut.Health.Status = Healthy <=> SMARTRulesTriggered(detSample) = {}

C12_Witness ==
    /\ Checked
    /\ detKind = "network"
    /\ Triggered = {"latency-p95"}
    /\ detOut.Health.Status = SubHealthy
    /\ detOut.Health.Confidence = 90

---------------------------------------------------------------------------
(* Properties of the history store (checked under SpecStore)               *)

\* a step that is a Store call, and the file of the device it is for
StoreStep == lastOp'.Op = "store" /\ clock' = clock
Stored(key) == files[key].Entries

StrictlyIncreasing(es) ==
    \A i \in 1..Len(es), j \in 1..Len(es) :
        i < j => es[i].Timestamp < es[j].Timestamp

\* C13: the timestamps of a device's log are strictly increasing, and an
\* append whose timestamp is not after the last recorded one is rejected and
\* leaves the log unchanged.
C13_TimestampsStrictlyIncreasing ==
    /\ [](\A k \in StorageKeys :
            files[k].State = "json" => StrictlyIncreasing(Stored(k)))
    /\ [][(/\ StoreStep
           /\ Stored(lastOp'.Key) # <<>>
           /\ lastOp'.Timestamp
                 <= Stored(lastOp'.Key)[Len(Stored(lastOp'.Key))].Timestamp) =>
              (lastOp'.Err # NilError /\ files' = files)]_vars

\* the timestamps of a sequence of metrics, and how often ts occurs in it
Occurrences(ms, ts) == Cardinality({i \in 1..Len(ms) : ms[i].Timestamp = ts})

Ascending(ms) ==
    \A i \in 1..Len(ms), j \in 1..Len(ms) :
        i < j => ms[i].Timestamp <= ms[j].Timestamp

\* a Query call that the file system did not fail, on a file that parses
Queried ==
    /\ lastOp.Op = "query"
    /\ lastOp.Fault = NoFault
    /\ files[lastOp.Key].State # "corrupt"

\* C14: a window query returns exactly the entries with
\* ts >= now - duration (the boundary included), in ascending timestamp
\* order, and an empty result without error when the device has no entries.
C14_WindowQuery ==
    Queried =>
        /\ lastOp.Err = NilError
        /\ Stored(lastOp.Key) = <<>> => lastOp.Result = <<>>
        /\ \A ts \in 0..MaxTime :
              Occurrences(lastOp.Result, ts) =
                  IF ts >= lastOp.Timestamp - lastOp.Window
                  THEN Occurrences(Stored(lastOp.Key), ts) ELSE 0
        /\ Ascending(lastOp.Result)

\* C15: a Store call is atomic with respect to failure: whatever interrupts
\* it, the device's log is afterwards well formed and holds either the
\* previous entries followed by the new one, or exactly the previous entries.
C15_AppendAtomic ==
    [][(StoreStep /\ files[lastOp'.Key].State # "corrupt") =>
          /\ files'[lastOp'.Key].State # "corrupt"
          /\ \/ files'[lastOp'.Key].Entries = Stored(lastOp'.Key)
             \/ files'[lastOp'.Key].Entries =
                    Append(Stored(lastOp'.Key),
                           Marshal(Metric(lastOp'.Key, lastOp'.Timestamp)))]_vars

\* C16: once a device's log is corrupted, every later append for that device
\* fails with a storage error and leaves the log unchanged, while appends and
\* queries for the other devices are answered as if nothing had happened: an
\* append touches no other device's file and succeeds whenever its own file
\* parses and the file system does not fail it, and so does a query.
C16_CorruptLogQuarantined ==
    /\ [][StoreStep =>
             /\ files[lastOp'.Key].State = "corrupt" =>
                  /\ lastOp'.Err.Code = "ERR_STORAGE_FAILURE"
                  /\ files' = files
             /\ \A k \in StorageKeys \ {lastOp'.Key} : files'[k] = files[k]
             /\ (/\ files[lastOp'.Key].State # "corrupt"
                 /\ lastOp'.Key.DeviceType \in typeDirs
                 /\ lastOp'.Fault = NoFault) =>
                  /\ lastOp'.Err = NilError
                  /\ files'[lastOp'.Key] =
                        JSONFile(Append(Stored(lastOp'.Key),
                                        Marshal(Metric(lastOp'.Key,
                                                       lastOp'.Timestamp))))]_vars
    /\ [](Queried => lastOp.Err = NilError)

C16_Witness ==
    /\ lastOp.Op = "store"
    /\ lastOp.Fault = NoFault
    /\ files[lastOp.Key].State = "corrupt"
    /\ lastOp.Err.Code = "ERR_STORAGE_FAILURE"
    /\ \E k \in StorageKeys \ {lastOp.Key} :
          files[k].State = "json" /\ Len(files[k].Entries) = MaxLog

---------------------------------------------------------------------------
(* Properties of the forecasts (checked under SpecForecast)                *)

\* a forecast that was returned without error, over the window in history
Forecasted(op) ==
    forecast.Op = op /\ ~forecast.QueryFails /\ forecast.Err = NilError

\* C17: a forecast over a window with 0, 1 or 2 entries has probability 0
\* (risk low), predicts no failure, and reports every trend stable.
C17_ShortWindowForecast ==
    Len(history) <= 2 =>
        /\ Forecasted("predict") => forecast.Probability = 0
        /\ Forecasted("monitor") =>
             /\ ~forecast.PredictedFailure
             /\ forecast.ErrorTrend = "stable"
             /\ forecast.LatencyTrend = "stable"
        /\ Forecasted("latency") => forecast.LatencyTrend = "stable"

ThirdsTrend(xs) ==
    LET n == Len(xs)
        k == n \div 3
        oldest == Sum(SubSeq(xs, 1, k))
        newest == Sum(SubSeq(xs, n - k + 1, n))
    IN  IF 2 * newest > 3 * oldest THEN "increasing"
        ELSE IF 2 * newest < oldest THEN "decreasing"
        ELSE "stable"

\* C19: over at least three entries the error trend compares the mean of the
\* oldest third with the mean of the newest third (increasing above 1.5x,
\* decreasing below 0.5x, else stable), and for the nine samples with
\* reallocated sectors 1,1,1,10,10,10,50,50,50 the error trend is increasing.
C19_TrendByThirds ==
    (/\ Forecasted("monitor")
     /\ Len(history) >= 3
     /\ \A i \in 1..Len(history) : history[i].Value = "*SMARTData") =>
        /\ forecast.ErrorTrend = ThirdsTrend(ErrorRates(history))
        /\ history = DegradingHistory("*SMARTData") =>
              forecast.ErrorTrend = "increasing"

\* a degrading disk: the nine-sample history, or a current count of 150
Degrading(metrics) ==
    \/ metrics = DegradingHistory("*SMARTData")
    \/ /\ metrics # <<>>
       /\ metrics[Len(metrics)].Value = "*SMARTData"
       /\ metrics[Len(metrics)].ReallocatedSectors = 150

\* C20: a degrading disk gets a forecast with probability above 0.5 and a
\* risk that is not low (a failure is predicted on account of its reallocated
\* sector count).
C20_DegradingDiskForecast ==
    Degrading(history) =>
        /\ (Forecasted("predict") /\ forecast.ModelOut = MockProbability) =>
             forecast.Probability > 50
        /\ Forecasted("monitor") => forecast.PredictedFailure

---------------------------------------------------------------------------
(* Properties of concurrent callers (checked under SpecWorkers)            *)

\* C21: in every interleaving at most core.workers calls are in flight in
\* all, and at most one call is in flight per device, so that the operations
\* on one device never overlap
C21_BoundedInFlight ==
    /\ Cardinality(InFlight) <= coreCfg.Workers
    /\ \A g, h \in InFlight : procs[g].Key = procs[h].Key => g = h

\* the ParseSMART call of goroutine g has classified its sample
Assessed(g) == procs[g].Op = "parse" /\ procs[g].pc \notin {"idle", "assess"}

\* the metric of goroutine g's call is in the log of its device
Appended(g) ==
    \E i \in 1..Len(committed[procs[g].Key]) :
        committed[procs[g].Key][i] = Metric(procs[g].Key, procs[g].Timestamp)

\* C22: within one device's processing of a sample, the sample is appended
\* to the device's log before it is classified
C22_AppendBeforeClassify ==
    \A g \in Goroutines : Assessed(g) => Appended(g)

\* the file that holds exactly the metrics ms
LogOf(ms) == IF ms = <<>> THEN AbsentFile ELSE JSONFile(MarshalAll(ms))

\* some Store is between truncating and writing the file of device k
Writing(k) == \E g \in Goroutines : procs[g].pc = "write" /\ procs[g].Key = k

\* the Stores on device k whose write completed without error
Written(k) ==
    {g \in Goroutines : /\ procs[g].Op \in {"parse", "store"}
                        /\ procs[g].Key = k
                        /\ procs[g].pc \in {"unlock", "done"}
                        /\ procs[g].Err = NilError}

IsPrefix(a, b) == Len(a) <= Len(b) /\ a = SubSeq(b, 1, Len(a))

---------------------------------------------------------------------------
(* Further properties of the remediator (checked under Spec)               *)

\* C23: the remediator decides from the verdict handed to it: during an
\* Isolate or Recover call the detector is not asked for a new verdict
C23_NoDetectionInRemediation ==
    (IsCall("isolate") \/ IsCall("recover")) => ~lastCall.Out.Checked

\* the last call was a Recover of a RAID device that returned without error
\* and during which the array was reported not healthy
RepairedDegraded ==
    /\ IsCall("recover")
    /\ lastCall.DeviceType = RAID
    /\ lastCall.Out.Err = NilError
    /\ lastCall.Observed # <<>>
    /\ lastCall.Observed # <<Healthy>>

\* C24: for a RAID array reported degraded, once the repair (Recover) has
\* returned without error the next health check reports the array healthy
C24_RepairRestoresHealth ==
    [][(RepairedDegraded /\ lastCall'.Op = "tick" /\ lastCall'.Observed # <<>>)
          => lastCall'.Observed = <<Healthy>>]_vars

\* C28: Isolate and Recover called for a device type other than RAID return a
\* non-nil error and act on nothing; a Recover refused because the device is
\* not Healthy returns Success = false and a non-nil Error field
C28_RefusalsReportErrors ==
    /\ ((IsCall("isolate") \/ IsCall("recover")) /\ lastCall.DeviceType # RAID) =>
          /\ lastCall.Out.Err # NilError
          /\ lastCall.Out.Result.Action = ""
          /\ isolated[lastCall.DeviceID] = lastCall.WasIsolated
    /\ Dispatched("recover", "recovery failed") =>
          /\ ~lastCall.Out.Result.Success
          /\ lastCall.Out.Result.Error # NilError

---------------------------------------------------------------------------
(* Further properties of the history store (checked under SpecStore)       *)

\* C26: on a FileStorage a Store that the file system does not fail succeeds
\* (the first metric of a new device included), and a Query returns the
\* stored metrics with the value type they were stored with, so that
\* GetHistoricalData yields one SMARTData for each metric Query returned
C26_StoreQueryRoundTrip ==
    /\ (lastOp.Op = "store" /\ lastOp.Fault = NoFault
            /\ files[lastOp.Key].State # "corrupt") => lastOp.Err = NilError
    /\ Queried =>
          /\ \A i \in 1..Len(lastOp.Result) : lastOp.Result[i].Value = "*SMARTData"
          /\ Len(GetHistoricalData(lastOp.Result)) = Len(lastOp.Result)

---------------------------------------------------------------------------
(* Properties of the library entry points (checked under SpecAPI)          *)

\* the call just made was given empty input: ParseSMART the empty string,
\* AnalyzeTraffic or MonitorLatency the empty interface name
EmptyInputCall ==
    \/ apiCall'.Op = "ParseSMART" /\ apiCall'.Input.Empty
    \/ apiCall'.Op \in {"AnalyzeTraffic", "MonitorLatency"} /\ apiCall'.Input.Interface = ""

\* C27: ParseSMART with empty raw data, and AnalyzeTraffic or MonitorLatency
\* with an empty interface name, return a nil result and a non-nil error, and
\* nothing is stored by such a call
C27_EmptyInputRejected ==
    [][EmptyInputCall =>
          /\ apiCall'.Returned = <<>>
          /\ apiCall'.Err # NilError
          /\ files' = files]_vars

\* the experiment's fault type is supported and its parameter is valid
Injectable(config) ==
    \/ config.FaultType = NetworkLatency /\ ValidParam(config.LatencyMs)
    \/ config.FaultType = DiskIOPS /\ ValidParam(config.IopsLimit)

\* C29: Execute reports Success only for a supported fault type with a valid
\* parameter whose duration elapsed before any cancellation; a cancellation
\* while the fault is active gives Success = false and Error = the context
\* error; an unsupported fault type or an invalid or missing parameter gives
\* a non-nil error, Success = false and no injection in Observations
C29_ExecuteOutcome ==
    apiCall.Op = "Execute" =>
        LET r == apiCall.Returned[1]
            config == apiCall.Input.Config
            cancel == apiCall.Input.Cancel
        IN  /\ r.Success => Injectable(config) /\ cancel \in {"never", "at_expiry"}
            /\ (Injectable(config) /\ cancel = "during") =>
                  ~r.Success /\ r.Error = ContextCanceled
            /\ ~Injectable(config) =>
                  /\ apiCall.Err # NilError
                  /\ ~r.Success
                  /\ r.Observations = {}

\* the name under which initDefaultConfigs registers a device type
RegisteredName(d) ==
    CASE d = RAID -> "RAID"
      [] d = Disk -> "Disk"
      [] d = Network -> "Network"

\* C30: for every device type and every tier in {critical, non_critical}
\* GetSLOConfig returns the configuration initDefaultConfigs registered for
\* the pair, whose ServiceTier is the requested tier
C30_RegisteredConfigReturned ==
    (apiCall.Op = "GetSLOConfig"
        /\ apiCall.Input.ServiceTier \in {Critical, NonCritical}) =>
        /\ apiCall.Returned[1] =
              initDefaultConfigs[RegisteredName(apiCall.Input.DeviceType) \o "_"
                                     \o apiCall.Input.ServiceTier]
        /\ apiCall.Returned[1].ServiceTier = apiCall.Input.ServiceTier

====
